---- MODULE Spec2Model ----
(***************************************************************************)
(* The NFS export-table synchronisation of package share                   *)
(* (src/util/file/file.go, lines 206-365): Exists, Add, Remove,            *)
(* reloadServer and cleanLine.  Strings are sequences of one-character     *)
(* strings, so that substring search, first-occurrence replacement,        *)
(* splitting and joining are computed as the Go library computes them.     *)
(***************************************************************************)
EXTENDS Integers, Sequences, FiniteSets, TLC

----------------------------------------------------------------------------
(* Bounds *)

\* total number of Add/Remove invocations in one behaviour
MaxCalls == 2
\* longest sequence of Adds considered when asking whether a file is the
\* result of a sequence of Adds
MaxAdds == 3

----------------------------------------------------------------------------
(* Strings *)

SP == " "
NL == "\n"

\* the literal part of the format "%s -alldirs -mapall=%v:%v"
AllDirsMapAll == <<" ", "-", "a", "l", "l", "d", "i", "r", "s", " ", "-", "m", "a", "p", "a", "l", "l", "=">>

Digits == <<"0", "1", "2", "3", "4", "5", "6", "7", "8", "9">>

\* %v of a non-negative integer: its decimal digits
RECURSIVE Itoa(_)
Itoa(n) == IF n < 10 THEN <<Digits[n + 1]>>
           ELSE Itoa(n \div 10) \o <<Digits[(n % 10) + 1]>>

\* strings.Index, 1-based; 0 when sub does not occur in s
Index(s, sub) ==
    LET hits == {i \in 1..(Len(s) - Len(sub) + 1) : SubSeq(s, i, i + Len(sub) - 1) = sub}
    IN  IF hits = {} THEN 0 ELSE CHOOSE i \in hits : \A j \in hits : i <= j

\* strings.Contains / bytes.Contains
Contains(s, sub) == Index(s, sub) # 0

\* strings.Replace(s, old, new, 1): only the first occurrence is replaced
Replace1(s, old, new) ==
    LET i == Index(s, old)
    IN  IF i = 0 THEN s
        ELSE SubSeq(s, 1, i - 1) \o new \o SubSeq(s, i + Len(old), Len(s))

\* strings.Split(s, sep)
RECURSIVE Split(_, _)
Split(s, sep) ==
    IF sep = <<>> THEN [k \in 1..Len(s) |-> <<s[k]>>]
    ELSE LET i == Index(s, sep)
         IN  IF i = 0 THEN <<s>>
             ELSE <<SubSeq(s, 1, i - 1)>> \o Split(SubSeq(s, i + Len(sep), Len(s)), sep)

\* strings.Join(ss, sep)
RECURSIVE Join(_, _)
Join(ss, sep) ==
    IF Len(ss) = 0 THEN <<>>
    ELSE IF Len(ss) = 1 THEN ss[1]
    ELSE ss[1] \o sep \o Join(Tail(ss), sep)

----------------------------------------------------------------------------
(* Inputs *)

MountIP == <<"1", "0", ".", "0", ".", "2", ".", "2">>

\* two mount selectors; the rendering of S1 is a substring of that of S2
S1 == [mountIP |-> MountIP, uid |-> 501, gid |-> 20]
S2 == [mountIP |-> MountIP, uid |-> 501, gid |-> 200]
Selectors == {S1, S2}

PathP  == <<"/", "p">>
PathAP == <<"/", "a", "/", "p">>
PathC  == <<"/", "c">>
Paths == {PathP, PathAP, PathC}

\* the directories of the host file system, one of these per behaviour
DirSets == {Paths, {PathAP, PathC}, {PathP}}

----------------------------------------------------------------------------
(* State *)

VARIABLES
    file,          \* content of EXPORTSFILE
    fileExists,    \* whether EXPORTSFILE exists
    dirs,          \* the paths for which os.Stat succeeds and IsDir() holds
    testMode,      \* flag.Lookup("test.v") != nil
    pc,            \* position of each invocation
    op,            \* "Add" or "Remove"
    path,          \* the argument of the invocation
    sel,           \* provider.MountIP, uid(), gid() of the invocation
    existingFile,  \* local existingFile
    readFailed,    \* whether ioutil.ReadFile returned an error
    lines,         \* local lines (Add) / newLines (Remove)
    err,           \* the returned error
    cmds,          \* the nfsd commands the invocation has run, in order, with their outcome
    ver,           \* number of successful writes of EXPORTSFILE so far
    readVer,       \* ver when the invocation read the file
    writeVer,      \* ver just after the invocation wrote the file, 0 if it has not
    calls          \* number of invocations started

vars == <<file, fileExists, dirs, testMode, pc, op, path, sel, existingFile,
          readFailed, lines, err, cmds, ver, readVer, writeVer, calls>>

Procs == {1, 2}

NoErr == "nil"

----------------------------------------------------------------------------
(* The program *)

\* lineCheck := fmt.Sprintf("%s -alldirs -mapall=%v:%v", provider.MountIP, uid(), gid())
lineCheck(s) == s.mountIP \o AllDirsMapAll \o Itoa(s.uid) \o <<":">> \o Itoa(s.gid)

\* os.Stat(path) succeeds and fileInfo.IsDir()
IsDir(p) == p \in dirs

cleanLine(line, lc) ==
    LET paths     == Split(Replace1(line, lc, <<>>), <<SP>>)
        goodPaths == SelectSeq(paths, IsDir)
    IN  Join(goodPaths, <<SP>>) \o <<SP>> \o lc

\* index of the first line that contains lc, 0 if none
FirstMatch(ls, lc) ==
    LET hits == {i \in 1..Len(ls) : Contains(ls[i], lc)}
    IN  IF hits = {} THEN 0 ELSE CHOOSE i \in hits : \A j \in hits : i <= j

\* Add without the break: every line containing lc is rewritten
AddLines_noBreak(p, lc, existing) ==
    LET ls == Split(existing, <<NL>>)
    IN  IF FirstMatch(ls, lc) # 0
        THEN [i \in 1..Len(ls) |->
                IF Contains(ls[i], lc) THEN cleanLine(p \o <<SP>> \o ls[i], lc) ELSE ls[i]]
        ELSE Append(ls, p \o <<SP>> \o lc)

\* Add without the call of cleanLine
AddLines_noClean(p, lc, existing) ==
    LET ls == Split(existing, <<NL>>)
        i  == FirstMatch(ls, lc)
    IN  IF i # 0
        THEN [ls EXCEPT ![i] = p \o <<SP>> \o ls[i]]
        ELSE Append(ls, p \o <<SP>> \o lc)

\* the table Add writes, from the content it read
AddLines(p, lc, existing) ==
    LET ls == Split(existing, <<NL>>)
        i  == FirstMatch(ls, lc)
    IN  IF i # 0
        THEN [ls EXCEPT ![i] = cleanLine(p \o <<SP>> \o ls[i], lc)]
        ELSE Append(ls, p \o <<SP>> \o lc)

\* Remove without the test line != lineCheck
RemoveLine_keepBare(line, p, lc) ==
    IF ~Contains(line, lc) THEN <<line>>
    ELSE <<cleanLine(Replace1(line, p \o <<SP>>, <<>>), lc)>>

\* what Remove appends to newLines for one line of the file
RemoveLine(line, p, lc) ==
    IF ~Contains(line, lc) THEN <<line>>
    ELSE LET l == Replace1(line, p \o <<SP>>, <<>>)
         IN  IF l # lc THEN <<cleanLine(l, lc)>> ELSE <<>>

RECURSIVE RemoveEach(_, _, _)
RemoveEach(ls, p, lc) ==
    IF ls = <<>> THEN <<>>
    ELSE RemoveLine(Head(ls), p, lc) \o RemoveEach(Tail(ls), p, lc)

\* the table Remove writes, from the content it read
RemoveLines(p, lc, existing) == RemoveEach(Split(existing, <<NL>>), p, lc)

Exists(p) == fileExists /\ Contains(file, p \o <<SP>>)

----------------------------------------------------------------------------
(* Initial export files *)

LC1 == lineCheck(S1)
LC2 == lineCheck(S2)

\* the bare rule of the provider
FileBare == LC1
\* an unrelated line, a rule of S2 and a rule of S1
FileMixed == Join(<< <<"#", "x">>, PathC \o <<SP>> \o LC2, PathP \o <<SP>> \o LC1 >>, <<NL>>)
\* what Add(/p), Add(/c), Add(/a/p) under S1 leave when the file was missing
FileThree == Join(<< <<>>, PathAP \o <<SP>> \o PathC \o <<SP>> \o PathP \o <<SP>> \o LC1 >>, <<NL>>)
\* a rule whose only path is gone from the file system, and one with a single path
FileStale == Join(<< <<"/", "g">> \o <<SP>> \o LC2, PathC \o <<SP>> \o LC1 >>, <<NL>>)

InitFiles == {FileBare, FileMixed, FileThree, FileStale}

Init ==
    /\ \/ fileExists = FALSE /\ file = <<>>
       \/ fileExists = TRUE /\ file \in InitFiles
    /\ dirs \in DirSets
    /\ testMode \in BOOLEAN
    /\ pc = [p \in Procs |-> "idle"]
    /\ op = [p \in Procs |-> "none"]
    /\ path = [p \in Procs |-> <<>>]
    /\ sel = [p \in Procs |-> S1]
    /\ existingFile = [p \in Procs |-> <<>>]
    /\ readFailed = [p \in Procs |-> FALSE]
    /\ lines = [p \in Procs |-> <<>>]
    /\ err = [p \in Procs |-> NoErr]
    /\ cmds = [p \in Procs |-> <<>>]
    /\ ver = 0
    /\ readVer = [p \in Procs |-> 0]
    /\ writeVer = [p \in Procs |-> 0]
    /\ calls = 0

\* Add(path) / Remove(path) is invoked; models.LoadProvider() succeeds or fails
Call(p) ==
    /\ pc[p] = "idle"
    /\ calls < MaxCalls
    /\ calls' = calls + 1
    /\ \E o \in {"Add", "Remove"}, a \in Paths, s \in Selectors, ok \in BOOLEAN :
        /\ op' = [op EXCEPT ![p] = o]
        /\ path' = [path EXCEPT ![p] = a]
        /\ sel' = [sel EXCEPT ![p] = s]
        /\ pc' = [pc EXCEPT ![p] = IF ok THEN "read" ELSE "done"]
        /\ err' = [err EXCEPT ![p] = IF ok THEN NoErr ELSE "LoadProvider"]
    /\ UNCHANGED <<file, fileExists, dirs, testMode, existingFile, readFailed,
                   lines, cmds, ver, readVer, writeVer>>

\* Add returning the error of ioutil.ReadFile
AddRead_propagate(p) ==
    /\ pc[p] = "read" /\ op[p] = "Add"
    /\ \E ok \in (IF fileExists THEN BOOLEAN ELSE {FALSE}) :
        /\ existingFile' = [existingFile EXCEPT ![p] = IF ok THEN file ELSE <<>>]
        /\ readFailed' = [readFailed EXCEPT ![p] = ~ok]
        /\ pc' = [pc EXCEPT ![p] = IF ok THEN "write" ELSE "done"]
        /\ err' = [err EXCEPT ![p] = IF ok THEN NoErr ELSE "ReadFile"]
    /\ readVer' = [readVer EXCEPT ![p] = ver]
    /\ UNCHANGED <<file, fileExists, dirs, testMode, op, path, sel, lines,
                   cmds, ver, writeVer, calls>>

\* Add: ioutil.ReadFile(EXPORTSFILE); an error is replaced by an empty content
AddRead(p) ==
    /\ pc[p] = "read" /\ op[p] = "Add"
    /\ \E ok \in (IF fileExists THEN BOOLEAN ELSE {FALSE}) :
        /\ existingFile' = [existingFile EXCEPT ![p] = IF ok THEN file ELSE <<>>]
        /\ readFailed' = [readFailed EXCEPT ![p] = ~ok]
    /\ readVer' = [readVer EXCEPT ![p] = ver]
    /\ pc' = [pc EXCEPT ![p] = "write"]
    /\ UNCHANGED <<file, fileExists, dirs, testMode, op, path, sel, lines, err,
                   cmds, ver, writeVer, calls>>

\* Remove going on with an empty content after a failed read, as Add does
RemoveRead_goOn(p) ==
    /\ pc[p] = "read" /\ op[p] = "Remove"
    /\ \E ok \in (IF fileExists THEN BOOLEAN ELSE {FALSE}) :
        /\ existingFile' = [existingFile EXCEPT ![p] = IF ok THEN file ELSE <<>>]
        /\ readFailed' = [readFailed EXCEPT ![p] = ~ok]
    /\ pc' = [pc EXCEPT ![p] = "write"]
    /\ readVer' = [readVer EXCEPT ![p] = ver]
    /\ UNCHANGED <<file, fileExists, dirs, testMode, op, path, sel, lines, err,
                   cmds, ver, writeVer, calls>>

\* Remove: ioutil.ReadFile(EXPORTSFILE); an error is logged and nil returned
RemoveRead(p) ==
    /\ pc[p] = "read" /\ op[p] = "Remove"
    /\ \E ok \in (IF fileExists THEN BOOLEAN ELSE {FALSE}) :
        /\ existingFile' = [existingFile EXCEPT ![p] = IF ok THEN file ELSE <<>>]
        /\ readFailed' = [readFailed EXCEPT ![p] = ~ok]
        /\ pc' = [pc EXCEPT ![p] = IF ok THEN "write" ELSE "done"]
    /\ readVer' = [readVer EXCEPT ![p] = ver]
    /\ UNCHANGED <<file, fileExists, dirs, testMode, op, path, sel, lines, err,
                   cmds, ver, writeVer, calls>>

\* a save whose error is dropped: the reload runs all the same
WriteFile_ignoreErr(p, ls) ==
    /\ lines' = [lines EXCEPT ![p] = ls]
    /\ pc' = [pc EXCEPT ![p] = "reload"]
    /\ err' = err
    /\ \/ /\ file' = Join(ls, <<NL>>)
          /\ fileExists' = TRUE
          /\ ver' = ver + 1
          /\ writeVer' = [writeVer EXCEPT ![p] = ver + 1]
       \/ UNCHANGED <<file, fileExists, ver, writeVer>>
    /\ UNCHANGED <<dirs, testMode, op, path, sel, existingFile, readFailed,
                   cmds, readVer, calls>>

\* ioutil.WriteFile(EXPORTSFILE, strings.Join(ls, "\n")) and what follows it;
\* a failed save is one that could not open the file, which keeps its content
WriteFile(p, ls) ==
    /\ lines' = [lines EXCEPT ![p] = ls]
    /\ \/ /\ file' = Join(ls, <<NL>>)
          /\ fileExists' = TRUE
          /\ ver' = ver + 1
          /\ writeVer' = [writeVer EXCEPT ![p] = ver + 1]
          /\ pc' = [pc EXCEPT ![p] = "reload"]
          /\ err' = err
       \/ /\ pc' = [pc EXCEPT ![p] = "done"]
          /\ err' = [err EXCEPT ![p] = "WriteFile"]
          /\ UNCHANGED <<file, fileExists, ver, writeVer>>
    /\ UNCHANGED <<dirs, testMode, op, path, sel, existingFile, readFailed,
                   cmds, readVer, calls>>

\* Add computing the table from the file as it is when it saves
AddWrite_reread(p) ==
    /\ pc[p] = "write" /\ op[p] = "Add"
    /\ WriteFile(p, AddLines(path[p], lineCheck(sel[p]), IF fileExists THEN file ELSE <<>>))

\* Add: compute the table and save it
AddWrite(p) ==
    /\ pc[p] = "write" /\ op[p] = "Add"
    /\ WriteFile(p, AddLines(path[p], lineCheck(sel[p]), existingFile[p]))

\* Remove: compute the table and save it
RemoveWrite(p) ==
    /\ pc[p] = "write" /\ op[p] = "Remove"
    /\ WriteFile(p, RemoveLines(path[p], lineCheck(sel[p]), existingFile[p]))

\* reloadServer: nothing is run when testing
ReloadTest(p) ==
    /\ pc[p] = "reload" /\ testMode
    /\ pc' = [pc EXCEPT ![p] = "done"]
    /\ UNCHANGED <<file, fileExists, dirs, testMode, op, path, sel, existingFile,
                   readFailed, lines, err, cmds, ver, readVer, writeVer, calls>>

\* a reload step whose error is only logged
ReloadStep_goOn(p, at, name, next) ==
    /\ pc[p] = at
    /\ \E ok \in BOOLEAN :
        /\ cmds' = [cmds EXCEPT ![p] = Append(@, [cmd |-> name, ok |-> ok])]
        /\ pc' = [pc EXCEPT ![p] = next]
        /\ err' = [err EXCEPT ![p] = IF ok THEN err[p] ELSE name]
    /\ UNCHANGED <<file, fileExists, dirs, testMode, op, path, sel, existingFile,
                   readFailed, lines, ver, readVer, writeVer, calls>>

\* one exec.Command("nfsd", name).CombinedOutput() of reloadServer
ReloadStep(p, at, name, next) ==
    /\ pc[p] = at
    /\ \E ok \in BOOLEAN :
        /\ cmds' = [cmds EXCEPT ![p] = Append(@, [cmd |-> name, ok |-> ok])]
        /\ pc' = [pc EXCEPT ![p] = IF ok THEN next ELSE "done"]
        /\ err' = [err EXCEPT ![p] = IF ok THEN NoErr ELSE name]
    /\ UNCHANGED <<file, fileExists, dirs, testMode, op, path, sel, existingFile,
                   readFailed, lines, ver, readVer, writeVer, calls>>

ReloadEnable(p) == ~testMode /\ pc[p] = "reload" /\ ReloadStep(p, "reload", "enable nfs", "checkexports")

ReloadCheck(p) == ReloadStep(p, "checkexports", "checkexports", "update")

ReloadUpdate(p) == ReloadStep(p, "update", "update", "done")

\* the invocation has returned; its locals are gone
Return(p) ==
    /\ pc[p] = "done"
    /\ pc' = [pc EXCEPT ![p] = "idle"]
    /\ op' = [op EXCEPT ![p] = "none"]
    /\ path' = [path EXCEPT ![p] = <<>>]
    /\ sel' = [sel EXCEPT ![p] = S1]
    /\ existingFile' = [existingFile EXCEPT ![p] = <<>>]
    /\ readFailed' = [readFailed EXCEPT ![p] = FALSE]
    /\ lines' = [lines EXCEPT ![p] = <<>>]
    /\ err' = [err EXCEPT ![p] = NoErr]
    /\ cmds' = [cmds EXCEPT ![p] = <<>>]
    /\ readVer' = [readVer EXCEPT ![p] = 0]
    /\ writeVer' = [writeVer EXCEPT ![p] = 0]
    /\ UNCHANGED <<file, fileExists, dirs, testMode, ver, calls>>

Step(p) ==
    \/ Call(p)
    \/ AddRead(p)
    \/ RemoveRead(p)
    \/ AddWrite(p)
    \/ RemoveWrite(p)
    \/ ReloadTest(p)
    \/ ReloadEnable(p)
    \/ ReloadCheck(p)
    \/ ReloadUpdate(p)
    \/ Return(p)

\* Execution is single-threaded: one invocation at a time
Next == Step(1)

Spec == Init /\ [][Next]_vars

\* Two commands run concurrently on the shared file, each one invocation
StepOnce(p) ==
    \/ Call(p)
    \/ AddRead(p)
    \/ RemoveRead(p)
    \/ AddWrite(p)
    \/ RemoveWrite(p)
    \/ ReloadTest(p)
    \/ ReloadEnable(p)
    \/ ReloadCheck(p)
    \/ ReloadUpdate(p)

NextRace == \E p \in Procs : StepOnce(p)

SpecRace == Init /\ [][NextRace]_vars

----------------------------------------------------------------------------
(* Vocabulary of the properties *)

\* the invocation has computed the table it saves
Computed(p) ==
    \/ pc[p] \in {"reload", "checkexports", "update"}
    \/ /\ pc[p] = "done"
       /\ op[p] \in {"Add", "Remove"}
       /\ err[p] # "LoadProvider"
       /\ ~(op[p] = "Remove" /\ readFailed[p])

\* the invocation has returned nil
Succeeded(p) == pc[p] = "done" /\ err[p] = NoErr

OldLines(p) == Split(existingFile[p], <<NL>>)

LC(p) == lineCheck(sel[p])

NonEmpty(t) == t # <<>>

\* the path tokens of a line: what precedes and follows lc, cut at spaces
Tokens(line, lc) == SelectSeq(Split(Replace1(line, lc, <<>>), <<SP>>), NonEmpty)

TokenSet(line, lc) == {Tokens(line, lc)[i] : i \in 1..Len(Tokens(line, lc))}

\* the line is "<validated paths> <lineCheck>"
Rendered(line, lc) ==
    /\ line = Join(Tokens(line, lc), <<SP>>) \o <<SP>> \o lc
    /\ \A t \in TokenSet(line, lc) : IsDir(t)

Matching(ls, lc) == {i \in 1..Len(ls) : Contains(ls[i], lc)}

NotContaining(ls, lc) == SelectSeq(ls, LAMBDA l : ~Contains(l, lc))

\* the lines of the file Remove drops: lineCheck alone once "<path> " is cut out
Bare(p) ==
    {i \in Matching(OldLines(p), LC(p)) :
        Replace1(OldLines(p)[i], path[p] \o <<SP>>, <<>>) = LC(p)}

\* the line is a rule of selector s
Belongs(line, s) ==
    LET lc == lineCheck(s)
    IN  \/ line = lc
        \/ /\ Len(line) > Len(lc)
           /\ SubSeq(line, Len(line) - Len(lc), Len(line)) = <<SP>> \o lc

ReloadOrder == <<"enable nfs", "checkexports", "update">>

\* the files a sequence of Adds of existing directories under lc builds,
\* starting from a missing file or from the bare rule
RECURSIVE AddFold(_, _, _)
AddFold(seq, lc, f) ==
    IF seq = <<>> THEN f
    ELSE AddFold(Tail(seq), lc, Join(AddLines(Head(seq), lc, f), <<NL>>))

AddSeqs == UNION {[1..n -> Paths \cap dirs] : n \in 1..MaxAdds}

IsAddsResult(f, lc) ==
    \E seq \in AddSeqs, start \in {<<>>, lc} : AddFold(seq, lc, start) = f

----------------------------------------------------------------------------
(* C1 *)

\* C1 as stated: Remove never deletes a line that contains lineCheck, so the
\* table it saves has a line containing lineCheck wherever the file had one
\* and no fewer lines than the file.
C1_RemoveNeverDeletes ==
    \A p \in Procs :
        (op[p] = "Remove" /\ Computed(p)) =>
            /\ Len(lines[p]) >= Len(OldLines(p))
            /\ \A i \in Matching(OldLines(p), LC(p)) : Contains(lines[p][i], LC(p))

\* C1 amended: Remove deletes exactly the lines containing lineCheck that
\* equal lineCheck once the first "<path> " is cut out; every other line
\* containing lineCheck is kept, rendered as "<validated paths> <lineCheck>".
C1_RemoveDeletesBareRule ==
    \A p \in Procs :
        (op[p] = "Remove" /\ Computed(p)) =>
            /\ Len(lines[p]) = Len(OldLines(p)) - Cardinality(Bare(p))
            /\ Cardinality(Matching(lines[p], LC(p)))
                 = Cardinality(Matching(OldLines(p), LC(p))) - Cardinality(Bare(p))
            /\ \A i \in Matching(lines[p], LC(p)) : Rendered(lines[p][i], LC(p))
            /\ (\E i \in 1..Len(OldLines(p)) : OldLines(p)[i] = path[p] \o <<SP>> \o LC(p))
                 => Len(lines[p]) < Len(OldLines(p))

\* a Remove of the only path of a rule "<path> <lineCheck>" has computed its
\* table, and the rule is gone from it
C1_Witness ==
    \E p \in Procs :
        /\ op[p] = "Remove" /\ Computed(p)
        /\ \E i \in Bare(p) : OldLines(p)[i] = path[p] \o <<SP>> \o LC(p)

----------------------------------------------------------------------------
(* C2 *)

\* C2: Add under one selector leaves every line that is a rule of another
\* selector byte-identical, also when one rendering is a substring of the other.
C2_OtherSelectorUntouched ==
    \A p \in Procs :
        (op[p] = "Add" /\ Computed(p)) =>
            \A s \in Selectors \ {sel[p]} :
                \A i \in 1..Len(OldLines(p)) :
                    Belongs(OldLines(p)[i], s) => lines[p][i] = OldLines(p)[i]

----------------------------------------------------------------------------
(* C3 *)

\* C3: outside test mode the reload runs enable, check, update in this order,
\* each only after the earlier ones succeeded; the first failure ends it with
\* an error naming the failing step; nil is returned after three successes.
C3_ReloadFailFast ==
    \A p \in Procs :
        ~testMode =>
            /\ Len(cmds[p]) <= 3
            /\ \A i \in 1..Len(cmds[p]) :
                /\ cmds[p][i].cmd = ReloadOrder[i]
                /\ i < Len(cmds[p]) => cmds[p][i].ok
            /\ (cmds[p] # <<>> /\ ~cmds[p][Len(cmds[p])].ok) =>
                  /\ pc[p] = "done"
                  /\ err[p] = cmds[p][Len(cmds[p])].cmd
            /\ (Succeeded(p) /\ writeVer[p] # 0) =>
                  /\ Len(cmds[p]) = 3
                  /\ \A i \in 1..3 : cmds[p][i].ok
            /\ err[p] \in {"enable nfs", "checkexports", "update"} =>
                  /\ cmds[p] # <<>>
                  /\ cmds[p][Len(cmds[p])] = [cmd |-> err[p], ok |-> FALSE]

\* a reload that failed at the check step, and so never ran the update
C3_Witness ==
    \E p \in Procs :
        /\ ~testMode /\ pc[p] = "done" /\ err[p] = "checkexports"
        /\ Len(cmds[p]) = 2

----------------------------------------------------------------------------
(* C4 *)

\* the path is a token of a line of f that contains lc
HasToken(f, lc, a) ==
    \E i \in Matching(Split(f, <<NL>>), lc) : a \in TokenSet(Split(f, <<NL>>)[i], lc)

\* p and q are two Adds that both read the file before either saved it, q
\* saved last, both returned nil
Raced(p, q) ==
    /\ p # q
    /\ op[p] = "Add" /\ op[q] = "Add"
    /\ Succeeded(p) /\ Succeeded(q)
    /\ sel[p] = sel[q]
    /\ path[p] # path[q]
    /\ IsDir(path[p]) /\ IsDir(path[q])
    /\ readVer[p] = readVer[q]
    /\ writeVer[p] # 0 /\ writeVer[p] < writeVer[q]
    /\ ~HasToken(existingFile[q], LC(q), path[p])

\* C4: when two concurrent Adds both read the file before either writes, the
\* update of the first writer is lost: the final file is the table of the
\* last writer and holds its path only.
C4_LostUpdate ==
    \A p, q \in Procs :
        Raced(p, q) =>
            /\ file = Join(lines[q], <<NL>>)
            /\ HasToken(file, LC(q), path[q])
            /\ ~HasToken(file, LC(q), path[p])

C4_Witness ==
    \E p, q \in Procs :
        /\ Raced(p, q)
        /\ ~readFailed[p] /\ ~readFailed[q]
        /\ ~HasToken(file, LC(q), path[p])

----------------------------------------------------------------------------
(* C5 *)

\* C5 as stated: when the read fails, Add returns that error and does not
\* write the export file.
C5_AddPropagatesReadError ==
    \A p \in Procs :
        (op[p] = "Add" /\ readFailed[p]) =>
            /\ writeVer[p] = 0
            /\ pc[p] \notin {"reload", "checkexports", "update"}

\* C5 amended: when the read fails, Add goes on with an empty content: it
\* saves the table of an empty line and "<path> <lineCheck>", and returns
\* without having saved only when the save itself failed.
C5_AddIgnoresReadError ==
    \A p \in Procs :
        (op[p] = "Add" /\ readFailed[p]) =>
            /\ existingFile[p] = <<>>
            /\ Computed(p) => lines[p] = << <<>>, path[p] \o <<SP>> \o LC(p) >>
            /\ (writeVer[p] # 0 /\ ver = writeVer[p]) =>
                  file = <<NL>> \o path[p] \o <<SP>> \o LC(p)
            /\ pc[p] = "done" => (writeVer[p] # 0 \/ err[p] = "WriteFile")

\* an Add whose read failed although the file exists has replaced the file
C5_Witness ==
    \E p \in Procs :
        /\ op[p] = "Add" /\ readFailed[p] /\ Succeeded(p)
        /\ writeVer[p] = 1 /\ ver = 1
        /\ file = <<NL>> \o path[p] \o <<SP>> \o LC(p)

----------------------------------------------------------------------------
(* C6 *)

\* C6: when the provider lookup succeeds and the read fails, Remove returns
\* nil, saves nothing and runs no reload step.
C6_RemoveSwallowsReadError ==
    \A p \in Procs :
        (op[p] = "Remove" /\ readFailed[p]) =>
            /\ Succeeded(p)
            /\ writeVer[p] = 0
            /\ lines[p] = <<>>
            /\ cmds[p] = <<>>

\* a Remove has returned on a missing file, which is still missing
C6_Witness ==
    \E p \in Procs :
        /\ op[p] = "Remove" /\ readFailed[p] /\ Succeeded(p)
        /\ ~fileExists

----------------------------------------------------------------------------
(* C7 *)

\* C7: the file is saved before the first reload step, a failing reload step
\* leaves the saved table in the file, and a failed save runs no reload step
\* and returns the write error.
C7_SaveBeforeReload ==
    \A p \in Procs :
        /\ (cmds[p] # <<>> \/ pc[p] \in {"reload", "checkexports", "update"}) =>
              writeVer[p] # 0
        /\ (writeVer[p] # 0 /\ ver = writeVer[p]) =>
              /\ fileExists
              /\ file = Join(lines[p], <<NL>>)
        /\ err[p] = "WriteFile" =>
              /\ pc[p] = "done"
              /\ cmds[p] = <<>>
              /\ writeVer[p] = 0
        /\ (Computed(p) /\ writeVer[p] = 0) => err[p] = "WriteFile"

\* a reload failed at its last step and the file holds the new table
C7_Witness ==
    \E p \in Procs :
        /\ pc[p] = "done" /\ err[p] = "update"
        /\ writeVer[p] # 0
        /\ file = Join(lines[p], <<NL>>)
        /\ file # existingFile[p]

----------------------------------------------------------------------------
(* C8 *)

\* C8: Add and Remove keep the lines that do not contain lineCheck verbatim
\* and in order; Add changes at most the first line containing lineCheck, and
\* when there is none it only appends "<path> <lineCheck>".
C8_OtherLinesKept ==
    \A p \in Procs :
        Computed(p) =>
            LET old == OldLines(p)
                i   == FirstMatch(old, LC(p))
            IN  /\ NotContaining(lines[p], LC(p)) = NotContaining(old, LC(p))
                /\ op[p] = "Add" =>
                    /\ i # 0 =>
                        /\ Len(lines[p]) = Len(old)
                        /\ \A j \in 1..Len(old) : j # i => lines[p][j] = old[j]
                    /\ i = 0 => lines[p] = Append(old, path[p] \o <<SP>> \o LC(p))

\* an Add on a file with an unrelated line and two lines containing lineCheck
C8_Witness ==
    \E p \in Procs :
        /\ op[p] = "Add" /\ Computed(p)
        /\ Cardinality(Matching(OldLines(p), LC(p))) = 2
        /\ NotContaining(OldLines(p), LC(p)) # <<>>
        /\ lines[p] # OldLines(p)

----------------------------------------------------------------------------
(* C9 *)

\* the line of the saved table that Add wrote the path to
AddedLine(p) ==
    LET i == FirstMatch(OldLines(p), LC(p))
    IN  IF i # 0 THEN lines[p][i] ELSE lines[p][Len(lines[p])]

\* C9 as stated: Add never validates; after a successful Add the path is a
\* token of the selector's line, every earlier token of that line is still on
\* it, and Exists(path) holds.
C9_AddNeverValidates ==
    \A p \in Procs :
        (op[p] = "Add" /\ Succeeded(p) /\ ver = writeVer[p]) =>
            LET i == FirstMatch(OldLines(p), LC(p))
            IN  /\ path[p] \in TokenSet(AddedLine(p), LC(p))
                /\ i # 0 => TokenSet(OldLines(p)[i], LC(p)) \subseteq TokenSet(AddedLine(p), LC(p))
                /\ Exists(path[p])

\* C9 amended: when a line contains lineCheck, Add validates: after a
\* successful Add that line holds the path and the earlier tokens, in this
\* order, less those that are not existing directories; when no line contains
\* lineCheck the new line is "<path> <lineCheck>" unvalidated.  Exists(path)
\* holds when the path is an existing directory or no line contained lineCheck.
C9_AddValidatesMatchedLine ==
    \A p \in Procs :
        (op[p] = "Add" /\ Succeeded(p) /\ ver = writeVer[p]) =>
            LET i == FirstMatch(OldLines(p), LC(p))
            IN  /\ i # 0 =>
                    /\ Tokens(AddedLine(p), LC(p))
                         = SelectSeq(<<path[p]>> \o Tokens(OldLines(p)[i], LC(p)), IsDir)
                    /\ Rendered(AddedLine(p), LC(p))
                /\ i = 0 => AddedLine(p) = path[p] \o <<SP>> \o LC(p)
                /\ (i = 0 \/ IsDir(path[p])) => Exists(path[p])

\* a successful Add of a path that is no directory to a line that had a token
C9_Witness ==
    \E p \in Procs :
        /\ op[p] = "Add" /\ Succeeded(p) /\ ver = writeVer[p]
        /\ FirstMatch(OldLines(p), LC(p)) # 0
        /\ ~IsDir(path[p])
        /\ path[p] \notin TokenSet(AddedLine(p), LC(p))

----------------------------------------------------------------------------
(* C10 *)

\* C10: after a sequence of successful Adds of existing directories under one
\* selector, a successful Remove(P) removes exactly P: P is a token of no line
\* containing lineCheck, and every other token that is an existing directory
\* is still there.
C10_RemoveExactlyPath ==
    \A p \in Procs :
        (/\ op[p] = "Remove" /\ Succeeded(p) /\ ~readFailed[p]
         /\ IsAddsResult(existingFile[p], LC(p))) =>
            /\ \A i \in Matching(lines[p], LC(p)) : path[p] \notin TokenSet(lines[p][i], LC(p))
            /\ \A i \in Matching(OldLines(p), LC(p)) :
                 \A t \in TokenSet(OldLines(p)[i], LC(p)) :
                    (t # path[p] /\ IsDir(t)) =>
                        \E j \in Matching(lines[p], LC(p)) : t \in TokenSet(lines[p][j], LC(p))

====
